---- MODULE Spec2Model ----
(***************************************************************************)
(* Model of tools/createBinaryArchives.py: main() runs createBinaryArchive *)
(* for six (platform, arch) targets.  Files are modelled by their bytes:   *)
(* a startup script is a sequence of tokens ("A" is the anchor prefix of   *)
(* the script's dialect, "x" any other text, "CR"/"LF" the line            *)
(* terminator bytes), the JSON file a sequence of members.  The host is a  *)
(* POSIX system (line 1 of the script), so os.linesep is LF.               *)
(***************************************************************************)
EXTENDS Integers, Sequences, FiniteSets, TLC

VARIABLES
  pc,                  \* position of the single control flow
  i,                   \* index of the target main() is processing
  pom,                 \* pom.xml: the values of its <version> tags, in order
  editsLeft,           \* how often the environment may still rewrite pom.xml
  built,               \* versions v for which target/ltex-ls-<v>.tar.gz exists
  distFiles,           \* payload of the input archive: its files
  distScripts,         \* payload of the input archive: bytes of the scripts
  distJson,            \* payload of the input archive: bin/.lsp-cli.json
  ltexLsVersion,       \* local of createBinaryArchive
  relativeJavaDirPath, \* local of createBinaryArchive (result of downloadJava)
  tmpDirs,             \* scratch directories that exist
  tmpDirPath,          \* local of createBinaryArchive (0: none)
  nextTmp,             \* number of scratch directories created so far
  files,               \* paths that exist below the scratch directory
  text,                \* bytes of the startup scripts in the scratch directory
  json,                \* contents of bin/.lsp-cli.json in the scratch directory
  archives,            \* archives in the output directory
  jlinkExit,           \* exit status of the last jlink run (-1: none)
  exc,                 \* an exception is propagating
  failedStep,          \* the step that raised ("" when none)
  attempts,            \* how often each step ran for the current target
  created,             \* scratch directories created by each target
  tmpOwner,            \* the target that created each scratch directory
  tagAtRead            \* the first <version> value of pom.xml when each target read it

vars == <<pc, i, pom, editsLeft, built, distFiles, distScripts, distJson,
          ltexLsVersion, relativeJavaDirPath, tmpDirs, tmpDirPath, nextTmp,
          files, text, json, archives, jlinkExit, exc, failedStep, attempts,
          created, tmpOwner, tagAtRead>>

----------------------------------------------------------------------------
(* Bounds *)

MaxPomEdits == 1
MaxTags == 2
MaxLines == 2
MaxMembers == 2

----------------------------------------------------------------------------
(* Program constants *)

javaVersion == "11.0.15+10"

Targets ==
  << [platform |-> "linux",   arch |-> "x64"],
     [platform |-> "linux",   arch |-> "aarch64"],
     [platform |-> "mac",     arch |-> "x64"],
     [platform |-> "mac",     arch |-> "aarch64"],
     [platform |-> "windows", arch |-> "x64"],
     [platform |-> "windows", arch |-> "x86-32"] >>

NumTargets == Len(Targets)

Versions == {"v1", "v2"}
NoVersion == "none"

ShScripts == {"bin/ltex-ls", "bin/ltex-cli"}
BatScripts == {"bin/ltex-ls.bat", "bin/ltex-cli.bat"}
ScriptNames == ShScripts \cup BatScripts
LspCliJson == "bin/.lsp-cli.json"
ServerCommandLineKey == "--server-command-line"

Steps == {"version", "mkdtemp", "extract", "download", "jdkextract", "rmarchive",
          "link", "assert", "rmjdk", "unlink", "patch1", "patch2", "json",
          "archive"}

----------------------------------------------------------------------------
(* Helpers on sequences *)

RECURSIVE Flatten(_)
Flatten(ss) == IF ss = <<>> THEN <<>> ELSE Head(ss) \o Flatten(Tail(ss))

SeqsUpTo(S, n) == UNION {[1..k -> S] : k \in 0..n}

----------------------------------------------------------------------------
(* getLtexLsVersion, lines 139-143: group 1 of the first <version> tag *)

\* a resolver that takes the last <version> tag instead of the first
GetLtexLsVersionLast(p) == IF p = <<>> THEN NoVersion ELSE p[Len(p)]

GetLtexLsVersion(p) == IF p = <<>> THEN NoVersion ELSE p[1]

----------------------------------------------------------------------------
(* Text-mode file I/O of open(path, "r") and open(path, "w") *)

\* universal newlines on reading: CR LF and a lone CR both become LF
RECURSIVE ReadText(_)
ReadText(b) ==
  IF b = <<>> THEN <<>>
  ELSE IF Head(b) = "CR"
       THEN IF Len(b) >= 2 /\ b[2] = "LF"
            THEN <<"LF">> \o ReadText(Tail(Tail(b)))
            ELSE <<"LF">> \o ReadText(Tail(b))
       ELSE <<Head(b)>> \o ReadText(Tail(b))

Linesep == <<"LF">>

\* on writing every LF becomes os.linesep, everything else is written as is
RECURSIVE WriteText(_)
WriteText(s) ==
  IF s = <<>> THEN <<>>
  ELSE (IF Head(s) = "LF" THEN Linesep ELSE <<Head(s)>>) \o WriteText(Tail(s))

----------------------------------------------------------------------------
(* The script patcher, lines 43-67 *)

\* a patcher that forgets to unlink the second script of the other dialect
OtherDialectScriptsLsOnly(platform) ==
  IF platform = "windows" THEN <<"bin/ltex-ls">> ELSE <<"bin/ltex-ls.bat">>

\* lines 44-45 and 50-51: the scripts that are unlinked, in that order
OtherDialectScripts(platform) ==
  IF platform = "windows" THEN <<"bin/ltex-ls", "bin/ltex-cli">>
  ELSE <<"bin/ltex-ls.bat", "bin/ltex-cli.bat">>

BinScriptPaths(platform) ==
  IF platform = "windows" THEN <<"bin/ltex-ls.bat", "bin/ltex-cli.bat">>
  ELSE <<"bin/ltex-ls", "bin/ltex-cli">>

\* the text inserted after the anchor line; "JAVA_HOME" stands for the fixed
\* part of the conditional default, which ends in the runtime directory name
BinScriptJavaHomeInsertString(platform, rel) ==
  IF platform = "windows" THEN <<"CR", "LF", "JAVA_HOME", rel>>
  ELSE <<"LF", "JAVA_HOME", rel>>

\* re.compile("^<anchor>.*$", re.MULTILINE).search(s): the first position at
\* the start of a line that holds the anchor prefix; the match runs to the end
\* of that line ("." matches everything but LF).  end = 0: no match.
MatchStarts(s) ==
  {p \in 1..Len(s) : s[p] = "A" /\ (p = 1 \/ s[p - 1] = "LF")}

LineEnd(s, p) ==
  IF \E q \in p..Len(s) : s[q] = "LF"
  THEN (CHOOSE q \in p..Len(s) : s[q] = "LF" /\ \A r \in p..(q - 1) : s[r] # "LF") - 1
  ELSE Len(s)

Min(S) == CHOOSE m \in S : \A n \in S : m <= n

RegexSearchEnd(s) ==
  IF MatchStarts(s) = {} THEN 0 ELSE LineEnd(s, Min(MatchStarts(s)))

\* a patcher without the assertion of line 64: a script without the anchor is
\* written back as it was read
PatchScriptUnchecked(bytes, platform, rel) ==
  LET binScript == ReadText(bytes)
      end == RegexSearchEnd(binScript)
  IN [found |-> TRUE,
      out |-> IF end = 0 THEN WriteText(binScript)
              ELSE WriteText(SubSeq(binScript, 1, end)
                             \o BinScriptJavaHomeInsertString(platform, rel)
                             \o SubSeq(binScript, end + 1, Len(binScript)))]

\* lines 62-67 for one script: found is the assertion of line 64, out the bytes
\* that line 67 writes
PatchScript(bytes, platform, rel) ==
  LET binScript == ReadText(bytes)
      end == RegexSearchEnd(binScript)
  IN [found |-> end # 0,
      out |-> WriteText(SubSeq(binScript, 1, end)
                        \o BinScriptJavaHomeInsertString(platform, rel)
                        \o SubSeq(binScript, end + 1, Len(binScript)))]

----------------------------------------------------------------------------
(* bin/.lsp-cli.json, lines 69-76.  A JSON object is a sequence of members  *)
(* [key, str, obj]: obj is the nested object of "defaultValues", str the    *)
(* value of every other key.                                                *)

Keys(o) == {o[k].key : k \in 1..Len(o)}

\* json.load builds a dict: a key stays where it first occurs and takes the
\* value of its last occurrence
RECURSIVE LoadPairs(_)
LoadPairs(o) ==
  IF o = <<>> THEN <<>>
  ELSE LET init == LoadPairs(SubSeq(o, 1, Len(o) - 1))
           last == o[Len(o)]
       IN IF last.key \in Keys(init)
          THEN [k \in 1..Len(init) |->
                  IF init[k].key = last.key THEN last ELSE init[k]]
          ELSE Append(init, last)

JsonLoad(o) ==
  LET top == LoadPairs(o)
  IN [k \in 1..Len(top) |-> [top[k] EXCEPT !.obj = LoadPairs(@)]]

\* d[key] = value on a dict
SetItem(d, key, value) ==
  IF key \in Keys(d)
  THEN [k \in 1..Len(d) |-> IF d[k].key = key THEN [d[k] EXCEPT !.str = value] ELSE d[k]]
  ELSE Append(d, [key |-> key, str |-> value, obj |-> <<>>])

\* a patcher that always names the shell script
ServerCommandLineUnix(platform) == "./ltex-ls"

ServerCommandLine(platform) ==
  IF platform = "windows" THEN "ltex-ls.bat" ELSE "./ltex-ls"

\* lines 71-76: ok is FALSE when lspCliJson["defaultValues"] raises KeyError
RewriteJson(o, platform) ==
  LET d == JsonLoad(o)
  IN [ok |-> "defaultValues" \in Keys(d),
      out |-> [k \in 1..Len(d) |->
                 IF d[k].key = "defaultValues"
                 THEN [d[k] EXCEPT !.obj =
                         SetItem(@, ServerCommandLineKey, ServerCommandLine(platform))]
                 ELSE d[k]]]

----------------------------------------------------------------------------
(* The archiver, lines 78-85 *)

LtexLsBinaryArchiveFormat(platform) == IF platform = "windows" THEN "zip" ELSE "gztar"

LtexLsBinaryArchiveExtension(platform) == IF platform = "windows" THEN ".zip" ELSE ".tar.gz"

\* an archiver that leaves the architecture out of the name
LtexLsBinaryArchiveNameNoArch(version, platform, arch) ==
  "ltex-ls-" \o version \o "-" \o platform

LtexLsBinaryArchiveName(version, platform, arch) ==
  "ltex-ls-" \o version \o "-" \o platform \o "-" \o arch

----------------------------------------------------------------------------
(* The runtime provisioner, lines 90-135 *)

JavaArchiveName(platform, arch) ==
  "OpenJDK11U-jdk_" \o arch \o "_" \o platform \o "_hotspot_11.0.15_10"
    \o (IF platform = "windows" THEN ".zip" ELSE ".tar.gz")

RelativeJavaDirPathString == "jdk-" \o javaVersion

JavaArchivePath(platform, arch) == <<"dist", JavaArchiveName(platform, arch)>>
JdkDirPath == <<"tmp", RelativeJavaDirPathString>>
JavaTargetDirPath == <<"dist", RelativeJavaDirPathString>>

\* a provisioner that also checks the exit status (check=True)
LinkAcceptedChecked(fs, exit) == JavaTargetDirPath \in fs /\ exit = 0

\* line 130: the assertion looks at the directory only; the exit status of
\* line 127-129 is discarded
LinkAccepted(fs, exit) == JavaTargetDirPath \in fs

\* a provisioner that keeps the original JDK tree
AfterRmtreeKept(fs) == fs

\* line 133
AfterRmtree(fs) == fs \ {JdkDirPath}

\* line 109
AfterUnlinkJavaArchive(fs, platform, arch) == fs \ {JavaArchivePath(platform, arch)}

----------------------------------------------------------------------------
(* Inputs: the payload of the input archive and pom.xml *)

LineTexts == {<<"A", "x">>, <<"x">>, <<"x", "A">>}
Eols == {<<"LF">>, <<"CR", "LF">>}

ScriptBytes(lines, eol) == Flatten([k \in 1..Len(lines) |-> lines[k] \o eol])

ScriptInputs == {ScriptBytes(l, e) : l \in SeqsUpTo(LineTexts, MaxLines), e \in Eols}

ShCanonical == ScriptBytes(<< <<"x">>, <<"A", "x">> >>, <<"LF">>)
BatCanonical == ScriptBytes(<< <<"x">>, <<"A", "x">> >>, <<"CR", "LF">>)

CanonicalScripts ==
  [s \in ScriptNames |-> IF s \in ShScripts THEN ShCanonical ELSE BatCanonical]

Member(k, v) == [key |-> k, str |-> v, obj |-> <<>>]
DefaultValues(o) == [key |-> "defaultValues", str |-> "", obj |-> o]

DvMembers == {Member(k, v) : k \in {ServerCommandLineKey, "other"}, v \in {"a", "b"}}

JsonInputs ==
  {<<Member("x", "1"), DefaultValues(o)>> : o \in SeqsUpTo(DvMembers, MaxMembers)}
    \cup {<<DefaultValues(o), Member("x", "1"), DefaultValues(<<>>)>> :
             o \in SeqsUpTo(DvMembers, 1)}
    \cup {<<Member("x", "1")>>}

JsonCanonical ==
  <<Member("x", "1"),
    DefaultValues(<<Member(ServerCommandLineKey, "a"), Member("other", "b")>>)>>

AllDistFiles == ScriptNames \cup {LspCliJson, "lib"}

PomInputs == SeqsUpTo(Versions, MaxTags)

----------------------------------------------------------------------------
(* Initial states: either the environment varies (pom.xml, the input       *)
(* archives that exist) around a well-formed distribution, or one file of  *)
(* the distribution varies in a stable environment.                        *)

InitEnvironment ==
  /\ pom \in PomInputs
  /\ editsLeft = MaxPomEdits
  /\ built \in {{"v1"}, Versions}
  /\ distFiles = AllDistFiles
  /\ distScripts = CanonicalScripts
  /\ distJson = JsonCanonical

InitDistribution ==
  /\ pom = <<"v1">>
  /\ editsLeft = 0
  /\ built = {"v1"}
  /\ \/ /\ distFiles = AllDistFiles
        /\ distJson = JsonCanonical
        /\ \E s \in ScriptNames, b \in ScriptInputs :
              distScripts = [CanonicalScripts EXCEPT ![s] = b]
     \/ /\ distFiles = AllDistFiles
        /\ distScripts = CanonicalScripts
        /\ distJson \in JsonInputs
     \/ /\ \E f \in ScriptNames \cup {LspCliJson} : distFiles = AllDistFiles \ {f}
        /\ distScripts = CanonicalScripts
        /\ distJson = JsonCanonical

NoText == [s \in ScriptNames |-> <<>>]

Init ==
  /\ InitEnvironment \/ InitDistribution
  /\ pc = "version"
  /\ i = 1
  /\ ltexLsVersion = NoVersion
  /\ relativeJavaDirPath = ""
  /\ tmpDirs = {}
  /\ tmpDirPath = 0
  /\ nextTmp = 0
  /\ files = {}
  /\ text = NoText
  /\ json = <<>>
  /\ archives = {}
  /\ jlinkExit = -1
  /\ exc = FALSE
  /\ failedStep = ""
  /\ attempts = [s \in Steps |-> 0]
  /\ created = [t \in 1..NumTargets |-> 0]
  /\ tmpOwner = [d \in 1..NumTargets |-> 0]
  /\ tagAtRead = [t \in 1..NumTargets |-> ""]

----------------------------------------------------------------------------
(* Actions *)

cur == Targets[i]

Count(step) == attempts' = [attempts EXCEPT ![step] = @ + 1]

\* an exception raised inside the with block of line 32
Raise(step) ==
  /\ pc' = "exit_with"
  /\ exc' = TRUE
  /\ failedStep' = step

Goto(next) ==
  /\ pc' = next
  /\ UNCHANGED <<exc, failedStep>>

\* tempfile.TemporaryDirectory(): a directory that did not exist before
NewTmpDir(n) == n + 1

\* a scratch directory that is not removed on exit (tempfile.mkdtemp)
AfterCleanupKept(dirs, d) == dirs

\* leaving the with block of line 32, normally or by an exception
AfterCleanup(dirs, d) == dirs \ {d}

\* a main() that catches the exception of a target and goes on
AfterTargetSwallowed(raised, t) == IF t = NumTargets THEN "done" ELSE "version"

\* main(), lines 147-155: an exception leaves main(), a return goes on
AfterTarget(raised, t) ==
  IF raised THEN "failed" ELSE IF t = NumTargets THEN "done" ELSE "version"

\* line 27 (lines 139-143): the assertion of line 142 fails outside the with block
ResolveVersion ==
  /\ pc = "version"
  /\ Count("version")
  /\ tagAtRead' = [tagAtRead EXCEPT ![i] = IF pom = <<>> THEN NoVersion ELSE pom[1]]
  /\ ltexLsVersion' = GetLtexLsVersion(pom)
  /\ IF GetLtexLsVersion(pom) = NoVersion
     THEN pc' = "failed" /\ exc' = TRUE /\ failedStep' = "version"
     ELSE Goto("mkdtemp")
  /\ UNCHANGED <<i, pom, editsLeft, built, distFiles, distScripts, distJson,
                 relativeJavaDirPath, tmpDirs, tmpDirPath, nextTmp, files, text,
                 json, archives, jlinkExit, created, tmpOwner>>

\* line 32
EnterWith ==
  /\ pc = "mkdtemp"
  /\ Count("mkdtemp")
  /\ nextTmp' = nextTmp + 1
  /\ tmpDirPath' = NewTmpDir(nextTmp)
  /\ tmpDirs' = tmpDirs \cup {NewTmpDir(nextTmp)}
  /\ created' = [created EXCEPT ![i] = @ + 1]
  /\ tmpOwner' = [tmpOwner EXCEPT ![nextTmp + 1] = i]
  /\ Goto("extract")
  /\ UNCHANGED <<i, pom, editsLeft, built, distFiles, distScripts, distJson,
                 ltexLsVersion, relativeJavaDirPath, files, text, json, archives,
                 jlinkExit, tagAtRead>>

\* line 36: the input archive holds the directory ltex-ls-<version>
ExtractLtexLs ==
  /\ pc = "extract"
  /\ Count("extract")
  /\ IF ltexLsVersion \in built
     THEN /\ files' = {<<"tmp", "ltex-ls-" \o ltexLsVersion>>}
                        \cup {<<"dist", f>> : f \in distFiles}
          /\ text' = [s \in ScriptNames |-> IF s \in distFiles THEN distScripts[s] ELSE <<>>]
          /\ json' = IF LspCliJson \in distFiles THEN distJson ELSE <<>>
          /\ Goto("download")
     ELSE /\ Raise("extract")
          /\ UNCHANGED <<files, text, json>>
  /\ UNCHANGED <<i, pom, editsLeft, built, distFiles, distScripts, distJson,
                 ltexLsVersion, relativeJavaDirPath, tmpDirs, tmpDirPath, nextTmp,
                 archives, jlinkExit, created, tmpOwner, tagAtRead>>

\* line 100: the download succeeds or raises
DownloadJdk ==
  /\ pc = "download"
  /\ Count("download")
  /\ \E ok \in BOOLEAN :
       IF ok
       THEN /\ files' = files \cup {JavaArchivePath(cur.platform, cur.arch)}
            /\ Goto("jdkextract")
       ELSE /\ Raise("download")
            /\ UNCHANGED files
  /\ UNCHANGED <<i, pom, editsLeft, built, distFiles, distScripts, distJson,
                 ltexLsVersion, relativeJavaDirPath, tmpDirs, tmpDirPath, nextTmp,
                 text, json, archives, jlinkExit, created, tmpOwner, tagAtRead>>

\* lines 103-106: the JDK archive unpacks to jdk-<javaVersion> or is corrupt
ExtractJdk ==
  /\ pc = "jdkextract"
  /\ Count("jdkextract")
  /\ \E ok \in BOOLEAN :
       IF ok
       THEN /\ files' = files \cup {JdkDirPath}
            /\ Goto("rmarchive")
       ELSE /\ Raise("jdkextract")
            /\ UNCHANGED files
  /\ UNCHANGED <<i, pom, editsLeft, built, distFiles, distScripts, distJson,
                 ltexLsVersion, relativeJavaDirPath, tmpDirs, tmpDirPath, nextTmp,
                 text, json, archives, jlinkExit, created, tmpOwner, tagAtRead>>

\* line 109
RemoveJdkArchive ==
  /\ pc = "rmarchive"
  /\ Count("rmarchive")
  /\ files' = AfterUnlinkJavaArchive(files, cur.platform, cur.arch)
  /\ Goto("link")
  /\ UNCHANGED <<i, pom, editsLeft, built, distFiles, distScripts, distJson,
                 ltexLsVersion, relativeJavaDirPath, tmpDirs, tmpDirPath, nextTmp,
                 text, json, archives, jlinkExit, created, tmpOwner, tagAtRead>>

\* lines 127-129: jlink exits with some status and has or has not written the
\* runtime image; subprocess.run does not raise on a non-zero status
RunJlink ==
  /\ pc = "link"
  /\ Count("link")
  /\ \E exit \in {0, 1}, made \in BOOLEAN :
       /\ jlinkExit' = exit
       /\ files' = IF made THEN files \cup {JavaTargetDirPath} ELSE files
  /\ Goto("assert")
  /\ UNCHANGED <<i, pom, editsLeft, built, distFiles, distScripts, distJson,
                 ltexLsVersion, relativeJavaDirPath, tmpDirs, tmpDirPath, nextTmp,
                 text, json, archives, created, tmpOwner, tagAtRead>>

\* line 130
AssertImage ==
  /\ pc = "assert"
  /\ Count("assert")
  /\ IF LinkAccepted(files, jlinkExit) THEN Goto("rmjdk") ELSE Raise("assert")
  /\ UNCHANGED <<i, pom, editsLeft, built, distFiles, distScripts, distJson,
                 ltexLsVersion, relativeJavaDirPath, tmpDirs, tmpDirPath, nextTmp,
                 files, text, json, archives, jlinkExit, created, tmpOwner,
                 tagAtRead>>

\* lines 133-135 and the assignment of line 39
RemoveJdkDir ==
  /\ pc = "rmjdk"
  /\ Count("rmjdk")
  /\ files' = AfterRmtree(files)
  /\ relativeJavaDirPath' = RelativeJavaDirPathString
  /\ Goto("unlink")
  /\ UNCHANGED <<i, pom, editsLeft, built, distFiles, distScripts, distJson,
                 ltexLsVersion, tmpDirs, tmpDirPath, nextTmp, text, json, archives,
                 jlinkExit, created, tmpOwner, tagAtRead>>

\* lines 43-54: unlink raises FileNotFoundError on a missing script, after the
\* scripts before it have been removed
UnlinkOtherDialect ==
  /\ pc = "unlink"
  /\ Count("unlink")
  /\ LET other == OtherDialectScripts(cur.platform)
         missing == {k \in 1..Len(other) : <<"dist", other[k]>> \notin files}
     IN IF missing = {}
        THEN /\ files' = files \ {<<"dist", other[k]>> : k \in 1..Len(other)}
             /\ Goto("patch1")
        ELSE /\ files' = files \ {<<"dist", other[k]>> : k \in 1..(Min(missing) - 1)}
             /\ Raise("unlink")
  /\ UNCHANGED <<i, pom, editsLeft, built, distFiles, distScripts, distJson,
                 ltexLsVersion, relativeJavaDirPath, tmpDirs, tmpDirPath, nextTmp,
                 text, json, archives, jlinkExit, created, tmpOwner, tagAtRead>>

\* lines 61-67, one iteration of the loop
PatchBinScript ==
  /\ pc \in {"patch1", "patch2"}
  /\ Count(pc)
  /\ LET k == IF pc = "patch1" THEN 1 ELSE 2
         binScriptPath == BinScriptPaths(cur.platform)[k]
         r == PatchScript(text[binScriptPath], cur.platform, relativeJavaDirPath)
     IN IF <<"dist", binScriptPath>> \in files /\ r.found
        THEN /\ text' = [text EXCEPT ![binScriptPath] = r.out]
             /\ Goto(IF k = 1 THEN "patch2" ELSE "json")
        ELSE /\ Raise(pc)
             /\ UNCHANGED text
  /\ UNCHANGED <<i, pom, editsLeft, built, distFiles, distScripts, distJson,
                 ltexLsVersion, relativeJavaDirPath, tmpDirs, tmpDirPath, nextTmp,
                 files, json, archives, jlinkExit, created, tmpOwner, tagAtRead>>

\* lines 69-76
SetScriptName ==
  /\ pc = "json"
  /\ Count("json")
  /\ LET r == RewriteJson(json, cur.platform)
     IN IF <<"dist", LspCliJson>> \in files /\ r.ok
        THEN /\ json' = r.out
             /\ Goto("archive")
        ELSE /\ Raise("json")
             /\ UNCHANGED json
  /\ UNCHANGED <<i, pom, editsLeft, built, distFiles, distScripts, distJson,
                 ltexLsVersion, relativeJavaDirPath, tmpDirs, tmpDirPath, nextTmp,
                 files, text, archives, jlinkExit, created, tmpOwner, tagAtRead>>

\* lines 78-85: the archive holds the scratch directory as it is now and
\* replaces a file of the same path
MakeArchive ==
  /\ pc = "archive"
  /\ Count("archive")
  /\ LET path == LtexLsBinaryArchiveName(ltexLsVersion, cur.platform, cur.arch)
                   \o LtexLsBinaryArchiveExtension(cur.platform)
         a == [path |-> path,
               format |-> LtexLsBinaryArchiveFormat(cur.platform),
               target |-> i,
               files |-> files,
               text |-> text,
               json |-> json]
     IN archives' = {b \in archives : b.path # path} \cup {a}
  /\ Goto("exit_with")
  /\ UNCHANGED <<i, pom, editsLeft, built, distFiles, distScripts, distJson,
                 ltexLsVersion, relativeJavaDirPath, tmpDirs, tmpDirPath, nextTmp,
                 files, text, json, jlinkExit, created, tmpOwner, tagAtRead>>

\* the end of the with block of line 32, then the return to main() or the
\* exception leaving it
ExitWith ==
  /\ pc = "exit_with"
  /\ tmpDirs' = AfterCleanup(tmpDirs, tmpDirPath)
  /\ tmpDirPath' = 0
  /\ files' = {}
  /\ text' = NoText
  /\ json' = <<>>
  /\ jlinkExit' = -1
  /\ pc' = AfterTarget(exc, i)
  /\ IF AfterTarget(exc, i) = "version"
     THEN /\ i' = i + 1
          /\ attempts' = [s \in Steps |-> 0]
          /\ ltexLsVersion' = NoVersion
          /\ relativeJavaDirPath' = ""
          /\ exc' = FALSE
          /\ failedStep' = ""
     ELSE UNCHANGED <<i, attempts, ltexLsVersion, relativeJavaDirPath, exc, failedStep>>
  /\ UNCHANGED <<pom, editsLeft, built, distFiles, distScripts, distJson, nextTmp,
                 archives, created, tmpOwner, tagAtRead>>

\* the environment rewrites pom.xml while the script runs
EditPom ==
  /\ pc \notin {"done", "failed"}
  /\ editsLeft > 0
  /\ editsLeft' = editsLeft - 1
  /\ \E p \in PomInputs \ {pom} : pom' = p
  /\ UNCHANGED <<pc, i, built, distFiles, distScripts, distJson, ltexLsVersion,
                 relativeJavaDirPath, tmpDirs, tmpDirPath, nextTmp, files, text,
                 json, archives, jlinkExit, exc, failedStep, attempts, created,
                 tmpOwner, tagAtRead>>

Next ==
  \/ ResolveVersion
  \/ EnterWith
  \/ ExtractLtexLs
  \/ DownloadJdk
  \/ ExtractJdk
  \/ RemoveJdkArchive
  \/ RunJlink
  \/ AssertImage
  \/ RemoveJdkDir
  \/ UnlinkOtherDialect
  \/ PatchBinScript
  \/ SetScriptName
  \/ MakeArchive
  \/ ExitWith
  \/ EditPom

Spec == Init /\ [][Next]_vars

----------------------------------------------------------------------------
(* Vocabulary of the properties, stated on the files themselves *)

ArchiveOf(t) == {a \in archives : a.target = t}

ExpectedPath(v, t) ==
  "ltex-ls-" \o v \o "-" \o Targets[t].platform \o "-" \o Targets[t].arch
    \o (IF Targets[t].platform = "windows" THEN ".zip" ELSE ".tar.gz")

\* the version an archive carries in its name, the version of the input archive
\* it was built from
NameVersion(a) == {v \in Versions : a.path = ExpectedPath(v, a.target)}
SourceVersion(a) == {v \in Versions : <<"tmp", "ltex-ls-" \o v>> \in a.files}

Kept(t) == IF Targets[t].platform = "windows" THEN BatScripts ELSE ShScripts
Dropped(t) == IF Targets[t].platform = "windows" THEN ShScripts ELSE BatScripts

\* a line of the raw file starts with the anchor prefix
AnchorStarts(b) ==
  {p \in 1..Len(b) : b[p] = "A" /\ (p = 1 \/ b[p - 1] \in {"LF", "CR"})}

HasAnchorLine(b) == AnchorStarts(b) # {}

IsPatched(b) == \E p \in 1..Len(b) : b[p] = "JAVA_HOME"

\* targets whose call of createBinaryArchive has returned or raised
Ended(t) == t < i \/ (t = i /\ pc \in {"done", "failed"})

InWith == {"extract", "download", "jdkextract", "rmarchive", "link", "assert",
           "rmjdk", "unlink", "patch1", "patch2", "json", "archive", "exit_with"}

----------------------------------------------------------------------------
\* C1: when every step succeeds, the run ends with exactly one archive per
\* target, at ltex-ls-<version>-<platform>-<arch> with format zip and extension
\* .zip on windows, gzip-tar and .tar.gz otherwise; the six paths differ, so
\* a target whose call has returned still has its archive.
C1_OneArchivePerTarget ==
  /\ \A a \in archives :
       /\ NameVersion(a) # {}
       /\ a.format = (IF Targets[a.target].platform = "windows" THEN "zip" ELSE "gztar")
  /\ \A a, b \in archives : a.target # b.target => a.path # b.path
  /\ \A t \in 1..NumTargets :
       (Ended(t) /\ ~(t = i /\ pc = "failed")) => Cardinality(ArchiveOf(t)) = 1
  /\ pc = "done" => Cardinality(archives) = NumTargets

C1_Witness ==
  /\ pc = "done"
  /\ \A t \in 1..NumTargets : ArchiveOf(t) # {}

----------------------------------------------------------------------------
\* C3: a kept startup script without an anchor line makes the patch step raise
\* before that script is rewritten and before the archiving step: the script on
\* disk is still the extracted one, the target has no archive, and every archive
\* holds patched scripts whose originals had the anchor.
C3_NoArchiveFromUnpatchedScript ==
  /\ \A a \in archives : \A s \in Kept(a.target) :
       HasAnchorLine(distScripts[s]) /\ IsPatched(a.text[s])
  /\ \A s \in ScriptNames :
       (<<"dist", s>> \in files /\ text[s] # distScripts[s]) => HasAnchorLine(distScripts[s])
  /\ \A k \in 1..2 :
       LET s == BinScriptPaths(Targets[i].platform)[k]
           after == IF k = 1 THEN {"patch2", "json", "archive"} ELSE {"json", "archive"}
       IN /\ (pc \in after => HasAnchorLine(distScripts[s]))
          /\ (pc = "exit_with" /\ exc /\ failedStep = (IF k = 1 THEN "patch1" ELSE "patch2")
                /\ <<"dist", s>> \in files)
               => (~HasAnchorLine(distScripts[s]) /\ text[s] = distScripts[s]
                     /\ ArchiveOf(i) = {})

C3_Witness ==
  /\ pc = "exit_with"
  /\ failedStep = "patch2"
  /\ ~HasAnchorLine(distScripts[BinScriptPaths(Targets[i].platform)[2]])
  /\ IsPatched(text[BinScriptPaths(Targets[i].platform)[1]])

----------------------------------------------------------------------------
\* C4: the scripts of the other dialect are gone before a script is patched
\* and are not in the archive, the two scripts of the platform's dialect are.
C4_OtherDialectAbsent ==
  /\ \A a \in archives :
       /\ \A s \in Dropped(a.target) : <<"dist", s>> \notin a.files
       /\ \A s \in Kept(a.target) : <<"dist", s>> \in a.files
  /\ pc \in {"patch1", "patch2", "json", "archive"} =>
       \A s \in Dropped(i) : <<"dist", s>> \notin files
  /\ \A s \in ScriptNames :
       (pc \in InWith /\ IsPatched(text[s])) =>
         \A o \in Dropped(i) : <<"dist", o>> \notin files

C4_Witness ==
  /\ \E a \in archives : Targets[a.target].platform = "windows"
  /\ \E a \in archives : Targets[a.target].platform = "linux"
  /\ \E a \in archives : Targets[a.target].platform = "mac"

----------------------------------------------------------------------------
(* Reading a JSON file as any JSON parser does: a repeated key has the value *)
(* of its last occurrence                                                    *)

Max(S) == CHOOSE m \in S : \A n \in S : m >= n

LastMember(o, key) == o[Max({k \in 1..Len(o) : o[k].key = key})]

DefaultValuesOf(o) == LastMember(o, "defaultValues").obj

\* C5: in every archive defaultValues["--server-command-line"] of
\* bin/.lsp-cli.json is "ltex-ls.bat" on windows and "./ltex-ls" otherwise, and
\* every other key, at the top level and below defaultValues, has the value it
\* had in the extracted distribution.
C5_JsonScriptName ==
  \A a \in archives :
    /\ "defaultValues" \in Keys(distJson)
    /\ Keys(a.json) = Keys(distJson)
    /\ \A key \in Keys(distJson) \ {"defaultValues"} :
         LastMember(a.json, key).str = LastMember(distJson, key).str
    /\ Keys(DefaultValuesOf(a.json))
         = Keys(DefaultValuesOf(distJson)) \cup {ServerCommandLineKey}
    /\ \A key \in Keys(DefaultValuesOf(distJson)) \ {ServerCommandLineKey} :
         LastMember(DefaultValuesOf(a.json), key).str
           = LastMember(DefaultValuesOf(distJson), key).str
    /\ LastMember(DefaultValuesOf(a.json), ServerCommandLineKey).str
         = (IF Targets[a.target].platform = "windows" THEN "ltex-ls.bat" ELSE "./ltex-ls")

C5_Witness ==
  /\ \E a \in archives : Targets[a.target].platform = "windows"
  /\ \E a \in archives : Targets[a.target].platform # "windows"
  /\ "other" \in Keys(DefaultValuesOf(distJson))
  /\ "x" \in Keys(distJson)

----------------------------------------------------------------------------
\* C6 as stated: at most one scratch directory exists at any moment, every
\* target whose iteration has ended created exactly one, and none of an ended
\* iteration exists.
C6_Original ==
  /\ Cardinality(tmpDirs) <= 1
  /\ \A t \in 1..NumTargets : Ended(t) => created[t] = 1
  /\ \A d \in tmpDirs : ~Ended(tmpOwner[d])

\* C6, amended: a target that resolved the version creates exactly one scratch
\* directory when it enters the with block and a target that failed at version
\* resolution creates none; a scratch directory is used by the target that
\* created it only, at most one exists at any moment, and none of an ended
\* iteration exists.
C6_OneScratchDirPerTarget ==
  /\ Cardinality(tmpDirs) <= 1
  /\ \A t \in 1..NumTargets :
       /\ created[t] <= 1
       /\ Ended(t) => created[t] = (IF t = i /\ failedStep = "version" THEN 0 ELSE 1)
       /\ (t = i /\ pc \in InWith) => created[t] = 1
  /\ \A d \in tmpDirs : tmpOwner[d] = i /\ ~Ended(i) /\ d = tmpDirPath
  /\ \A d, e \in 1..nextTmp : d # e => tmpOwner[d] # tmpOwner[e]
  /\ pc \in {"version", "mkdtemp", "done", "failed"} => tmpDirs = {}
  /\ pc \in InWith \ {"exit_with"} => tmpDirs = {tmpDirPath}

C6_Witness ==
  /\ pc = "failed"
  /\ failedStep = "download"
  /\ i > 1
  /\ created[i] = 1
  /\ tmpDirs = {}

----------------------------------------------------------------------------
\* C7 as stated: all archives of a run carry the same version and are built
\* from the same input archive, whatever happens to pom.xml during the run.
C7_Original ==
  \A a, b \in archives :
    NameVersion(a) = NameVersion(b) /\ SourceVersion(a) = SourceVersion(b)

\* C7, amended: the version is extracted once per target, at the start of its
\* iteration, and does not change within the iteration: the archive of a target
\* carries the first <version> value pom.xml had when that target read it and
\* is built from the input archive of that version.
C7_VersionPerTarget ==
  /\ attempts["version"] <= 1
  /\ pc \in InWith \cup {"mkdtemp"} =>
       (tagAtRead[i] \in Versions /\ ltexLsVersion = tagAtRead[i])
  /\ \A a \in archives :
       /\ tagAtRead[a.target] \in Versions
       /\ NameVersion(a) = {tagAtRead[a.target]}
       /\ SourceVersion(a) = {tagAtRead[a.target]}

C7_Witness ==
  /\ pc = "done"
  /\ \E a, b \in archives :
       /\ a.target < b.target
       /\ tagAtRead[a.target] # tagAtRead[b.target]
       /\ NameVersion(a) # NameVersion(b)

----------------------------------------------------------------------------
\* C8: what follows the run of jlink depends on the existence of the runtime
\* image only.  Without the image the assertion fails while the original JDK
\* tree is still there, no script is patched and the target gets no archive;
\* with the image the pipeline goes on, whatever the exit status was.
C8_Step ==
  (pc = "assert" /\ pc' # "assert") =>
    IF JavaTargetDirPath \in files
    THEN pc' = "rmjdk" /\ ~exc'
    ELSE /\ pc' = "exit_with" /\ exc' /\ failedStep' = "assert"
         /\ JdkDirPath \in files'
         /\ text' = text /\ archives' = archives

C8_Failed ==
  (pc = "exit_with" /\ failedStep = "assert") =>
    /\ JavaTargetDirPath \notin files
    /\ JdkDirPath \in files
    /\ \A s \in ScriptNames : ~IsPatched(text[s])
    /\ ArchiveOf(i) = {}

C8_Passed ==
  pc \in {"rmjdk", "unlink", "patch1", "patch2", "json", "archive"} =>
    JavaTargetDirPath \in files

\* C8: the existence of the runtime image alone decides what follows jlink,
\* in every state and at every step of the assertion.
C8_ImageDecides == [](C8_Failed /\ C8_Passed) /\ [][C8_Step]_vars

C8_Witness ==
  /\ pc = "exit_with"
  /\ ~exc
  /\ jlinkExit = 1
  /\ ArchiveOf(i) # {}

----------------------------------------------------------------------------
\* C9: the provisioner downloads, extracts, removes the downloaded archive,
\* links, asserts and deletes the JDK tree in this order, so from the end of
\* the provisioner to the archiving step, and in every archive, the scratch
\* directory holds neither the downloaded archive nor the JDK tree and its
\* only Java runtime is the image inside the distribution directory.
JavaIn(fs, t) ==
  {f \in fs : f[2] \in {RelativeJavaDirPathString,
                        JavaArchiveName(Targets[t].platform, Targets[t].arch)}}

C9_ProvisionerOrder ==
  /\ pc \in {"extract", "download"} => JavaIn(files, i) = {}
  /\ pc = "jdkextract" => JavaIn(files, i) = {JavaArchivePath(cur.platform, cur.arch)}
  /\ pc = "rmarchive" =>
       JavaIn(files, i) = {JavaArchivePath(cur.platform, cur.arch), JdkDirPath}
  /\ pc = "link" => JavaIn(files, i) = {JdkDirPath}
  /\ pc = "assert" => JavaIn(files, i) \in {{JdkDirPath}, {JdkDirPath, JavaTargetDirPath}}
  /\ pc = "rmjdk" => JavaIn(files, i) = {JdkDirPath, JavaTargetDirPath}
  /\ pc \in {"unlink", "patch1", "patch2", "json", "archive"} =>
       JavaIn(files, i) = {JavaTargetDirPath}
  /\ \A a \in archives : JavaIn(a.files, a.target) = {JavaTargetDirPath}

C9_Witness ==
  /\ pc = "archive"
  /\ JavaTargetDirPath \in files
  /\ Targets[i].platform = "mac"

----------------------------------------------------------------------------
\* C10: no step runs twice for a target, and the first failure ends the run:
\* the failing target has no archive, no later target is started, and the
\* archives of the earlier targets stay.
C10_State ==
  /\ \A s \in Steps : attempts[s] <= 1
  /\ \A t \in 1..NumTargets :
       /\ t < i => Cardinality(ArchiveOf(t)) = 1
       /\ t > i => (ArchiveOf(t) = {} /\ created[t] = 0 /\ tagAtRead[t] = "")
  /\ exc => ArchiveOf(i) = {}
  /\ pc = "failed" => exc

C10_Step ==
  /\ exc => (exc' /\ i' = i /\ pc' \in {pc, "failed"} /\ archives' = archives)
  /\ pc = "failed" => pc' = "failed"

----------------------------------------------------------------------------
\* C2: in every archive each of the two kept startup scripts is the extracted
\* script with exactly one line inserted right after its first anchor line,
\* everything else byte for byte as it was, and the inserted line names the
\* directory jdk-<javaVersion> that holds the runtime image in the archive.
RawLineEnd(b, p) ==
  IF \E q \in p..Len(b) : b[q] \in {"LF", "CR"}
  THEN Min({q \in p..Len(b) : b[q] \in {"LF", "CR"}}) - 1
  ELSE Len(b)

InsertedAfterAnchor(b, nl) ==
  LET e == RawLineEnd(b, Min(AnchorStarts(b)))
  IN SubSeq(b, 1, e) \o nl \o <<"JAVA_HOME", "jdk-" \o javaVersion>>
       \o SubSeq(b, e + 1, Len(b))

C2_ScriptPatchedInPlace ==
  \A a \in archives :
    /\ <<"dist", "jdk-" \o javaVersion>> \in a.files
    /\ \A s \in Kept(a.target) :
         /\ HasAnchorLine(distScripts[s])
         /\ \E nl \in {<<"LF">>, <<"CR", "LF">>} :
              a.text[s] = InsertedAfterAnchor(distScripts[s], nl)

====
